---- MODULE Spec2Model ----
(***************************************************************************)
(* A model of toollm's workdir-confined file store (src/file.py), its      *)
(* precise editor (File.search_replace) and its command runner             *)
(* (src/cmd.py, src/toollm/functions.py).                                  *)
(*                                                                         *)
(* Text is a sequence of one-character strings.  "CR" and "LF" stand for   *)
(* the carriage return and the line feed.  A path of the file system is    *)
(* the sequence of its names from the root: <<>> is "/", <<"w","a.txt">>   *)
(* is "/w/a.txt".                                                          *)
(***************************************************************************)
EXTENDS Integers, Sequences, FiniteSets, TLC

VARIABLES
    platform,   \* "posix" or "nt": decides os.linesep
    workdir,    \* File.workdir, the absolute (not canonicalized) root
    files,      \* canonical path -> bytes on disk, or Absent
    dirs,       \* the canonical paths that are directories
    procs,      \* processes started by execute calls that are still running
    tempdirs,   \* number of temporary workdirs that exist on disk
    last        \* the most recent call: its arguments and what it returned

vars == <<platform, workdir, files, dirs, procs, tempdirs, last>>

\* ------------------------------------------------------------------ bounds

MaxSegs == 2
MaxBatch == 2
MaxContent == 3

\* ------------------------------------------------- str (Python semantics)

\* s[i .. i+len(sub)-1] = sub
MatchAt(s, sub, i) ==
    /\ i >= 1
    /\ i + Len(sub) - 1 <= Len(s)
    /\ \A j \in 1..Len(sub) : s[i + j - 1] = sub[j]

\* str.find(sub, i-1) + 1: the least match position >= i, or 0
RECURSIVE find(_, _, _)
find(s, sub, i) ==
    IF i + Len(sub) - 1 > Len(s) THEN 0
    ELSE IF MatchAt(s, sub, i) THEN i
    ELSE find(s, sub, i + 1)

RECURSIVE CountFrom(_, _, _)
CountFrom(s, sub, i) ==
    LET p == find(s, sub, i)
    IN  IF p = 0 THEN 0 ELSE 1 + CountFrom(s, sub, p + Len(sub))

\* a mutant of str.count: a text that does not occur is counted once
CountAtLeastOne(s, sub) ==
    IF sub = <<>> THEN Len(s) + 1
    ELSE IF find(s, sub, 1) = 0 THEN 1 ELSE CountFrom(s, sub, 1)

\* str.count(sub): non-overlapping occurrences, scanned from the left;
\* the empty string occurs len(s)+1 times
count(s, sub) ==
    IF sub = <<>> THEN Len(s) + 1 ELSE CountFrom(s, sub, 1)

\* str.replace(old, new, n) from position i on; n < 0 replaces all
RECURSIVE ReplaceFrom(_, _, _, _, _)
ReplaceFrom(s, old, new, i, n) ==
    IF n = 0 THEN SubSeq(s, i, Len(s))
    ELSE IF old = <<>>
         THEN IF i > Len(s) THEN new
              ELSE new \o <<s[i]>> \o ReplaceFrom(s, old, new, i + 1, n - 1)
         ELSE LET p == find(s, old, i)
              IN  IF p = 0 THEN SubSeq(s, i, Len(s))
                  ELSE SubSeq(s, i, p - 1) \o new
                          \o ReplaceFrom(s, old, new, p + Len(old), n - 1)

replace(s, old, new, n) == ReplaceFrom(s, old, new, 1, n)

\* str.splitlines(keepends=True) on text whose only line boundary is LF
\* (read_text has already translated CR and CR LF to LF)
RECURSIVE SplitFrom(_, _, _)
SplitFrom(s, i, cur) ==
    IF i > Len(s) THEN (IF cur = <<>> THEN <<>> ELSE <<cur>>)
    ELSE IF s[i] = "LF"
         THEN <<Append(cur, s[i])>> \o SplitFrom(s, i + 1, <<>>)
         ELSE SplitFrom(s, i + 1, Append(cur, s[i]))

splitlines(s) == SplitFrom(s, 1, <<>>)

\* ''.join(lines)
RECURSIVE join(_)
join(lines) == IF lines = <<>> THEN <<>> ELSE Head(lines) \o join(Tail(lines))

\* lines[a:b] for 0 <= a (Python slice: clipped, empty when a >= b)
slice(lines, a, b) ==
    LET hi == IF b < 0 THEN Len(lines) + b
              ELSE IF b > Len(lines) THEN Len(lines) ELSE b
    IN  IF a >= hi THEN <<>> ELSE SubSeq(lines, a + 1, hi)

\* ------------------------------------------------ text files on the disk

\* Path.write_text(text, encoding='utf-8'): text mode with newline=None
\* writes os.linesep for every LF
RECURSIVE EncodeText(_, _)
EncodeText(plat, text) ==
    IF text = <<>> THEN <<>>
    ELSE (IF Head(text) = "LF" /\ plat = "nt" THEN <<"CR", "LF">>
          ELSE <<Head(text)>>) \o EncodeText(plat, Tail(text))

\* Path.read_text(encoding='utf-8'): text mode with newline=None reads
\* CR LF and a lone CR as LF (universal newlines)
RECURSIVE read_text(_)
read_text(bytes) ==
    IF bytes = <<>> THEN <<>>
    ELSE IF Head(bytes) = "CR"
         THEN <<"LF">> \o read_text(IF Len(bytes) >= 2 /\ bytes[2] = "LF"
                                    THEN Tail(Tail(bytes)) ELSE Tail(bytes))
         ELSE <<Head(bytes)>> \o read_text(Tail(bytes))

write_text(text) == EncodeText(platform, text)

\* ------------------------------------------------------- the file system

Absent == <<"ABSENT">>

\* the regular files the model follows: one outside the workdir, and inside
\* it two text files, one whose extension is not on the allow-list and one
\* whose extension is in upper case
OutsideFile == <<"a.txt">>
BinNode == <<"w", "b.bin">>
UpperNode == <<"w", "A.TXT">>
FileNodes ==
    {OutsideFile, <<"w", "a.txt">>, <<"w", "d", "a.txt">>, BinNode, UpperNode}

\* symbolic links: /w/l -> / (leaves the workdir), /lw -> /w
IsLink(p) == p \in {<<"w", "l">>, <<"lw">>}
LinkTarget(p) == IF p = <<"lw">> THEN <<"w">> ELSE <<>>

Names == {"..", "d", "l", "a.txt", "w"}

\* a path argument: absolute or relative, and its segments
PathsUpTo(n) ==
    UNION {[abs : BOOLEAN, segs : [1..k -> Names]] : k \in 0..n}

IsPrefix(p, q) == Len(p) <= Len(q) /\ SubSeq(q, 1, Len(p)) = p

\* a mutant of Path.exists: every path is taken to exist
ExistsAlways(p) == TRUE

exists(p) == p \in dirs \/ (p \in FileNodes /\ files[p] # Absent)

\* a mutant of Path.is_dir: nothing is taken for a directory
NeverDir(p) == FALSE

is_dir(p) == p \in dirs
is_file(p) == p \in FileNodes /\ files[p] # Absent

\* Path.resolve(): symlinks followed, ".." taken from the resolved prefix
RECURSIVE ResolveFrom(_, _)
ResolveFrom(cur, segs) ==
    IF segs = <<>> THEN cur
    ELSE LET s == Head(segs)
             nxt == IF s = ".."
                    THEN (IF cur = <<>> THEN <<>>
                          ELSE SubSeq(cur, 1, Len(cur) - 1))
                    ELSE IF IsLink(Append(cur, s))
                         THEN LinkTarget(Append(cur, s))
                         ELSE Append(cur, s)
         IN  ResolveFrom(nxt, Tail(segs))

resolve(p) == ResolveFrom(<<>>, p)

\* self.workdir / file_path: an absolute file_path replaces the workdir
joinpath(base, file_path) ==
    IF file_path.abs THEN file_path.segs ELSE base \o file_path.segs

\* a mutant of _validate_path: .resolve() is left out
ValidateUnresolved(file_path) ==
    LET full == joinpath(workdir, file_path)
    IN  [valid |-> IsPrefix(workdir, full), full |-> full]

\* File._validate_path: (is_valid, resolved_path)
validate_path(file_path) ==
    LET full == resolve(joinpath(workdir, file_path))
    IN  [valid |-> IsPrefix(workdir, full), full |-> full]

\* Path.suffix of the names of the model
suffix(p) ==
    IF p = <<>> THEN <<>>
    ELSE IF p[Len(p)] = "a.txt" THEN <<".", "t", "x", "t">>
    ELSE IF p[Len(p)] = "A.TXT" THEN <<".", "T", "X", "T">>
    ELSE IF p[Len(p)] = "b.bin" THEN <<".", "b", "i", "n">>
    ELSE <<>>

SUPPORTED_TEXT_EXTENSIONS ==
    {<<".", "t", "x", "t">>, <<".", "p", "y">>, <<".", "j", "s">>,
     <<".", "t", "s">>, <<".", "j", "s", "x">>, <<".", "t", "s", "x">>,
     <<".", "m", "d">>, <<".", "j", "s", "o", "n">>, <<".", "y", "a", "m", "l">>,
     <<".", "y", "m", "l">>, <<".", "h", "t", "m", "l">>, <<".", "c", "s", "s">>,
     <<".", "s", "c", "s", "s">>, <<".", "s", "h">>, <<".", "b", "a", "t">>,
     <<".", "c", "s", "v">>, <<".", "l", "o", "g">>, <<".", "x", "m", "l">>,
     <<".", "s", "q", "l">>, <<".", "e", "n", "v">>, <<".", "i", "n", "i">>,
     <<".", "c", "f", "g">>, <<".", "j", "a", "v", "a">>, <<".", "c", "p", "p">>,
     <<".", "c">>, <<".", "h">>, <<".", "g", "o">>,
     <<".", "r", "s">>, <<".", "p", "h", "p">>, <<".", "r", "b">>}

UpperCase ==
    <<"A", "B", "C", "D", "E", "F", "G", "H", "I", "J", "K", "L", "M",
      "N", "O", "P", "Q", "R", "S", "T", "U", "V", "W", "X", "Y", "Z">>
LowerCase ==
    <<"a", "b", "c", "d", "e", "f", "g", "h", "i", "j", "k", "l", "m",
      "n", "o", "p", "q", "r", "s", "t", "u", "v", "w", "x", "y", "z">>

\* str.lower(): every upper-case letter becomes its lower-case letter
lower(s) ==
    [i \in 1..Len(s) |->
        IF \E k \in 1..Len(UpperCase) : UpperCase[k] = s[i]
        THEN LowerCase[CHOOSE k \in 1..Len(UpperCase) : UpperCase[k] = s[i]]
        ELSE s[i]]

\* File._is_text_file
is_text_file(p) == lower(suffix(p)) \in SUPPORTED_TEXT_EXTENSIONS

\* the bytes of a regular file, Absent for any other path
bytes_of(p) == IF p \in FileNodes THEN files[p] ELSE Absent

\* the proper ancestors of a path
ancestors(p) == {SubSeq(p, 1, k) : k \in 0..(Len(p) - 1)}

\* ------------------------------------------------------ results of File

\* The dict every File method returns.  A key the code leaves out is held
\* at its default here; error "none" stands for "no 'error' key".
NoRes ==
    [success |-> FALSE, error |-> "none", content |-> <<>>,
     total_lines |-> 0, replacements_made |-> 0, idx |-> 0, count |-> 0,
     listed_files |-> {}, listed_dirs |-> {}, raised |-> FALSE]

Fail(e) == [NoRes EXCEPT !.error = e]

\* no dict is returned: an exception leaves the method
Raised == [NoRes EXCEPT !.raised = TRUE]

\* the record of a call of File: which method, its arguments, the injected
\* fault of the underlying I/O, and the returned dict
Call(op, file_path, content, replacements, rng, recursive, fault, res) ==
    [op |-> op, path |-> file_path, content |-> content,
     batch |-> replacements, rng |-> rng, recursive |-> recursive,
     fault |-> fault, res |-> res]

NoRange == [has_start |-> FALSE, has_end |-> FALSE, start |-> 0, end |-> 0]
NoPath == [abs |-> FALSE, segs |-> <<>>]

\* -------------------------------------------------------- File.read_file

\* lines 93-118 of read_file: the read, the line count and the slice
ReadOutcome(full, rng, fault) ==
    IF fault # "none" \/ ~is_file(full) THEN Fail("io_error")
    ELSE LET content == read_text(bytes_of(full))
             lines == splitlines(content)
             total_lines == Len(lines)
         IN  IF rng.has_start /\ rng.has_end
             THEN IF rng.start < 1 \/ rng.end > total_lines
                  THEN Fail("out_of_bounds")
                  ELSE [NoRes EXCEPT !.success = TRUE,
                            !.content = join(slice(lines, rng.start - 1, rng.end)),
                            !.total_lines = total_lines]
             ELSE [NoRes EXCEPT !.success = TRUE, !.content = content,
                                !.total_lines = total_lines]

read_file(file_path, rng, fault) ==
    LET v == validate_path(file_path)
        res == IF ~v.valid THEN Fail("invalid_path")
               \* full_path.exists() at line 81 is outside the try block
               ELSE IF fault = "stat" THEN Raised
               ELSE IF ~exists(v.full) THEN Fail("not_found")
               ELSE IF ~is_text_file(v.full) THEN Fail("unsupported_type")
               ELSE ReadOutcome(v.full, rng, fault)
    IN  /\ last' = Call("read_file", file_path, <<>>, <<>>, rng, FALSE, fault, res)
        /\ UNCHANGED <<platform, workdir, files, dirs, procs, tempdirs>>

\* ------------------------------------------------------ File.create_file

\* a mutant of create_file's existence check: the check is skipped
NeverExists(p) == FALSE

\* full_path.exists() at line 142
target_exists(p) == exists(p)

create_file(file_path, content, fault) ==
    LET v == validate_path(file_path)
        full == v.full
        rejected == IF ~v.valid THEN "invalid_path"
                    \* full_path.exists() at line 142 is outside the try block
                    ELSE IF fault = "stat" THEN "raised"
                    ELSE IF target_exists(full) THEN "already_exists"
                    ELSE IF ~is_text_file(full) THEN "unsupported_type"
                    ELSE "none"
        \* mkdir(parents=True, exist_ok=True) raises when an ancestor is a file
        mkdir_raises == fault = "mkdir" \/ \E q \in ancestors(full) : is_file(q)
    IN  \* the model follows the files of FileNodes only
        /\ rejected = "none" => full \in FileNodes
        /\ IF rejected # "none" \/ mkdir_raises
           THEN UNCHANGED <<files, dirs>>
           ELSE /\ dirs' = dirs \cup ancestors(full)
                /\ files' = IF fault = "open" THEN files
                             ELSE IF fault = "write"
                                  THEN [files EXCEPT ![full] = <<>>]
                                  ELSE [files EXCEPT ![full] = write_text(content)]
        /\ last' = Call("create_file", file_path, content, <<>>, NoRange, FALSE, fault,
                        IF rejected = "raised" THEN Raised
                        ELSE IF rejected # "none" THEN Fail(rejected)
                        ELSE IF mkdir_raises \/ fault # "none" THEN Fail("io_error")
                        ELSE [NoRes EXCEPT !.success = TRUE])
        /\ UNCHANGED <<platform, workdir, procs, tempdirs>>

\* --------------------------------------------------- File.search_replace

None == <<"None">>

Stop(error, idx, cnt, content, made) ==
    [ok |-> FALSE, error |-> error, idx |-> idx, count |-> cnt,
     content |-> content, made |-> made]

\* a mutant of the uniqueness guard of line 234: it never rejects
NeverAmbiguous(replace_all, cnt) == FALSE

\* line 234: not replace_all and count > 1
ambiguous(replace_all, cnt) == ~replace_all /\ cnt > 1

\* a mutant of lines 240-245: replace_all adds 1, not count
MadeOne(replace_all, cnt) == 1

\* lines 240-245: what one spec adds to replacements_made
made_by(replace_all, cnt) == IF replace_all THEN cnt ELSE 1

\* The loop of lines 209-245 from the spec at position i (1-based here,
\* enumerate() in the code is 0-based: the reported idx is i - 1) on the
\* content as changed so far.  A rejected spec ends the loop with the
\* content reached (the code returns and drops it).
RECURSIVE ApplyFrom(_, _, _, _)
ApplyFrom(content, replacements, i, made) ==
    IF i > Len(replacements)
    THEN [ok |-> TRUE, error |-> "none", idx |-> 0, count |-> 0,
          content |-> content, made |-> made]
    ELSE LET original == replacements[i].original_text
             new_text == replacements[i].new_text
             \* replacement.get('replace_all', False)
             replace_all == replacements[i].replace_all = "true"
             cnt == count(content, original)
         IN  IF original = None \/ new_text = None
             THEN Stop("missing_field", i - 1, 0, content, made)
             ELSE IF original = new_text
             THEN Stop("identical", i - 1, 0, content, made)
             ELSE IF cnt = 0
             THEN Stop("text_not_found", i - 1, 0, content, made)
             ELSE IF ambiguous(replace_all, cnt)
             THEN Stop("not_unique", i - 1, cnt, content, made)
             ELSE ApplyFrom(replace(content, original, new_text,
                                    IF replace_all THEN -1 ELSE 1),
                            replacements, i + 1, made + made_by(replace_all, cnt))

\* a mutant of the commit of line 247: the content reached is written
\* even when a spec was rejected
WrittenAlways(bytes, out, fault) ==
    IF fault = "open" THEN bytes
    ELSE IF fault = "write" THEN <<>>
    ELSE write_text(out.content)

\* The file after the loop: line 247 is reached only when no spec was
\* rejected; open(mode='w') truncates before the text is written
written(bytes, out, fault) ==
    IF ~out.ok THEN bytes ELSE WrittenAlways(bytes, out, fault)

search_replace(file_path, replacements, fault) ==
    LET v == validate_path(file_path)
        full == v.full
        early == IF ~v.valid THEN "invalid_path"
                 \* full_path.exists() at line 199 is outside the try block
                 ELSE IF fault = "stat" THEN "raised"
                 ELSE IF ~exists(full) THEN "not_found"
                 \* read_text raises on a directory and on an I/O fault
                 ELSE IF ~is_file(full) \/ fault = "read" THEN "io_error"
                 ELSE "none"
    IN  /\ IF early # "none"
           THEN /\ UNCHANGED files
                /\ last' = Call("search_replace", file_path, <<>>, replacements,
                                NoRange, FALSE, fault,
                                IF early = "raised" THEN Raised ELSE Fail(early))
           ELSE \E out \in {ApplyFrom(read_text(files[full]), replacements, 1, 0)} :
                /\ files' = [files EXCEPT ![full] = written(files[full], out, fault)]
                /\ last' = Call("search_replace", file_path, <<>>, replacements,
                                NoRange, FALSE, fault,
                                IF ~out.ok
                                THEN [NoRes EXCEPT !.error = out.error,
                                                   !.idx = out.idx,
                                                   !.count = out.count]
                                ELSE IF fault # "none" THEN Fail("io_error")
                                ELSE [NoRes EXCEPT !.success = TRUE,
                                          !.replacements_made = out.made])
        /\ UNCHANGED <<platform, workdir, dirs, procs, tempdirs>>

\* ------------------------------------------------------ File.delete_file

delete_file(file_path, fault) ==
    LET v == validate_path(file_path)
        full == v.full
        res == IF ~v.valid THEN Fail("invalid_path")
               \* full_path.exists() at line 279 is outside the try block
               ELSE IF fault = "stat" THEN Raised
               ELSE IF ~exists(full) THEN Fail("not_found")
               ELSE IF is_dir(full) THEN Fail("is_directory")
               ELSE IF fault # "none" THEN Fail("io_error")
               ELSE [NoRes EXCEPT !.success = TRUE]
    IN  /\ files' = IF res.success THEN [files EXCEPT ![full] = Absent] ELSE files
        /\ last' = Call("delete_file", file_path, <<>>, <<>>, NoRange, FALSE, fault, res)
        /\ UNCHANGED <<platform, workdir, dirs, procs, tempdirs>>

\* ------------------------------------------------------- File.list_files

\* every path that names something on the disk: files, directories, links
entries ==
    {p \in FileNodes : files[p] # Absent} \cup (dirs \ {<<>>})
        \cup {<<"w", "l">>, <<"lw">>}

\* iterdir() gives the children, rglob('*') every descendant (links to
\* directories are listed but not entered)
walk(full, recursive) ==
    {p \in entries : /\ IsPrefix(full, p) /\ p # full
                     /\ recursive \/ Len(p) = Len(full) + 1}

\* item.relative_to(self.workdir)
relative_to(p, base) == SubSeq(p, Len(base) + 1, Len(p))

\* sorted(files) and sorted(directories) hold distinct paths: each is given
\* here as the set of its elements
list_files(directory, recursive, fault) ==
    LET v == validate_path(directory)
        full == v.full
        found == walk(full, recursive)
        res == IF ~v.valid THEN Fail("invalid_path")
               \* full_path.exists() at line 323 is outside the try block
               ELSE IF fault = "stat" THEN Raised
               ELSE IF ~exists(full) THEN Fail("not_found")
               ELSE IF ~is_dir(full) THEN Fail("not_a_directory")
               ELSE IF fault # "none" THEN Fail("io_error")
               ELSE [NoRes EXCEPT !.success = TRUE,
                        !.listed_files =
                            {relative_to(p, workdir) : p \in {q \in found : is_file(q)}},
                        !.listed_dirs =
                            {relative_to(p, workdir) :
                                p \in {q \in found : is_dir(resolve(q))}}]
    IN  /\ last' = Call("list_files", directory, <<>>, <<>>, NoRange, recursive, fault, res)
        /\ UNCHANGED <<platform, workdir, files, dirs, procs, tempdirs>>

\* ------------------------------------------------------------ File(...)

\* The state after File(workdir) is constructed on an existing directory:
\* /w is the workdir (named directly, or through the link /lw), one file
\* lies outside it, /w/a.txt and /w/d/a.txt are absent or hold one of the
\* given byte strings, the other files are absent, and /w/d exists at least
\* when /w/d/a.txt does.
InitFile(platforms, workdirs, dirsets, givenA, givenD) ==
    /\ platform \in platforms
    /\ workdir \in workdirs
    /\ files \in {[p \in FileNodes |->
                        IF p = OutsideFile THEN <<"a">>
                        ELSE IF p = <<"w", "a.txt">> THEN a
                        ELSE IF p = <<"w", "d", "a.txt">> THEN d
                        ELSE Absent] :
                   a \in givenA, d \in givenD}
    /\ dirs \in dirsets
    /\ files[<<"w", "d", "a.txt">>] # Absent => <<"w", "d">> \in dirs
    /\ procs = 0
    /\ tempdirs = 0
    /\ last = Call("init", NoPath, <<>>, <<>>, NoRange, FALSE, "none", NoRes)

\* no call has been made yet
Fresh == last.op = "init"

Flat == {<<>>, <<"w">>}
WithD == {<<>>, <<"w">>, <<"w", "d">>}

FileOps == {"read_file", "create_file", "search_replace", "delete_file", "list_files"}

\* ------------------------------------- paths: one call, any method, any path

R(o, n, ra) == [original_text |-> o, new_text |-> n, replace_all |-> ra]

InitPath ==
    InitFile({"posix"}, {<<"w">>, <<"lw">>}, {Flat, WithD},
             {Absent, <<"a">>}, {Absent, <<"a">>})

NextPath ==
    \E p \in PathsUpTo(MaxSegs) :
        \/ Fresh /\ read_file(p, NoRange, "none")
        \/ Fresh /\ create_file(p, <<"a">>, "none")
        \/ Fresh /\ search_replace(p, <<R(<<"a">>, <<"X">>, "absent")>>, "none")
        \/ Fresh /\ delete_file(p, "none")
        \/ Fresh /\ \E recursive \in BOOLEAN : list_files(p, recursive, "none")

SpecPath == InitPath /\ [][NextPath]_vars

HasDotDot(p) == \E i \in 1..Len(p.segs) : p.segs[i] = ".."

\* the canonical form of the path lies in the canonical workdir
Contained(p) == IsPrefix(resolve(workdir), resolve(joinpath(workdir, p)))

\* the step read nothing, wrote nothing, created nothing, deleted nothing
NoIO ==
    /\ files' = files
    /\ dirs' = dirs
    /\ last'.res.content = <<>>
    /\ last'.res.listed_files = {} /\ last'.res.listed_dirs = {}

C23_AcceptsExactlyContained ==
    [][(last'.op \in FileOps)
        => ((last'.res.error = "invalid_path") <=> ~Contained(last'.path))]_vars

\* --------------------------- edits: one search_replace call on /w/a.txt

APath == [abs |-> FALSE, segs |-> <<"a.txt">>]
ANode == <<"w", "a.txt">>

TextsUpTo(chars, n) == UNION {[1..k -> chars] : k \in 0..n}

\* the replacement specs a batch is drawn from
ReplacementSpecs ==
    {R(<<"X">>, <<"Y">>, "false"), R(<<"X">>, <<"Y">>, "true"),
     R(<<"a">>, <<"X">>, "absent"), R(<<"X">>, <<>>, "true"),
     R(<<>>, <<"a">>, "true"), R(<<"a">>, <<"a">>, "absent"),
     R(None, <<"X">>, "false"), R(<<"X">>, None, "true"),
     R(<<"a">>, <<"a", "X">>, "absent"), R(<<"a", "a">>, <<"X">>, "true")}

Batches == UNION {[1..k -> ReplacementSpecs] : k \in 0..MaxBatch}

InitEdit ==
    InitFile({"posix"}, {<<"w">>}, {Flat},
             TextsUpTo({"a", "X"}, MaxContent)
                 \cup {<<"a", "X", "b", "X", "c">>, Absent},
             {Absent})

NextEdit ==
    \/ Fresh /\ \E b \in Batches : search_replace(APath, b, "none")
    \/ Fresh /\ \E b \in {c \in Batches : Len(c) <= 1} :
                    search_replace(APath, b, "write")

SpecEdit == InitEdit /\ [][NextEdit]_vars

\* a spec as the data model has it: both texts given, and different
WellFormed(r) ==
    r.original_text # None /\ r.new_text # None /\ r.original_text # r.new_text

\* <<best(i), best(i+1), ..., best(Len(s)+2)>>, where best(k) is the
\* greatest number of pairwise non-overlapping occurrences of sub that
\* start at k or later: an occurrence at k is either left out or taken,
\* and then the next one starts at least Len(sub) later (and at least one
\* later: the empty string occurs once at each position)
RECURSIVE BestFrom(_, _, _)
BestFrom(s, sub, i) ==
    IF i > Len(s) + 1 THEN <<0>>
    ELSE LET rest == BestFrom(s, sub, i + 1)
             step == IF sub = <<>> THEN 1 ELSE Len(sub)
             take == IF MatchAt(s, sub, i)
                     THEN 1 + (IF step <= Len(rest) THEN rest[step] ELSE 0)
                     ELSE 0
         IN  <<IF take > rest[1] THEN take ELSE rest[1]>> \o rest

\* the greatest number of pairwise non-overlapping occurrences of sub in s
Occurrences(s, sub) == BestFrom(s, sub, 1)[1]

\* s with its leftmost occurrence of old replaced by new
LeftmostReplaced(s, old, new) ==
    LET p == CHOOSE i \in 1..(Len(s) + 1) :
                 MatchAt(s, old, i) /\ \A j \in 1..(i - 1) : ~MatchAt(s, old, j)
    IN  SubSeq(s, 1, p - 1) \o new \o SubSeq(s, p + Len(old), Len(s))

\* s with every occurrence of old, taken from the left, replaced by new
\* (the empty string occurs before every character and at the end)
RECURSIVE EveryReplaced(_, _, _)
EveryReplaced(s, old, new) ==
    IF \A i \in 1..(Len(s) + 1) : ~MatchAt(s, old, i) THEN s
    ELSE IF old = <<>>
         THEN IF s = <<>> THEN new
              ELSE new \o <<Head(s)>> \o EveryReplaced(Tail(s), old, new)
         ELSE LET p == CHOOSE i \in 1..(Len(s) + 1) :
                           MatchAt(s, old, i) /\ \A j \in 1..(i - 1) : ~MatchAt(s, old, j)
              IN  SubSeq(s, 1, p - 1) \o new
                      \o EveryReplaced(SubSeq(s, p + Len(old), Len(s)), old, new)

\* the content after the first n specs of a batch, by the two operators above
RECURSIVE ContentAfter(_, _, _)
ContentAfter(s, b, n) ==
    IF n = 0 THEN s
    ELSE LET cur == ContentAfter(s, b, n - 1)
         IN  IF b[n].replace_all = "true"
             THEN EveryReplaced(cur, b[n].original_text, b[n].new_text)
             ELSE LeftmostReplaced(cur, b[n].original_text, b[n].new_text)

\* the sum over the first n specs of the occurrence count (replace_all) or 1
RECURSIVE MadeAfter(_, _, _)
MadeAfter(s, b, n) ==
    IF n = 0 THEN 0
    ELSE MadeAfter(s, b, n - 1)
            + (IF b[n].replace_all = "true"
               THEN Occurrences(ContentAfter(s, b, n - 1), b[n].original_text)
               ELSE 1)

SpecErrors == {"missing_field", "identical", "text_not_found", "not_unique"}

\* the step is a search_replace call that got as far as reading the file
EditStep ==
    /\ last'.op = "search_replace"
    /\ last'.res.error \notin {"invalid_path", "not_found"}
    /\ last'.fault # "read"

\* C2: a search_replace call that rejects a spec of its batch (missing
\* field, identical texts, not found, not unique), also after specs that
\* matched, leaves the file byte-identical.
C2_RejectedBatchLeavesFile ==
    [][(last'.op = "search_replace" /\ last'.res.error \in SpecErrors)
        => (~last'.res.success /\ files' = files /\ dirs' = dirs)]_vars

\* the second spec of a batch was rejected after the first one had matched
C2_Witness ==
    /\ last.op = "search_replace"
    /\ last.batch = <<R(<<"a">>, <<"X">>, "absent"), R(<<"X">>, <<"Y">>, "false")>>
    /\ last.res.error = "not_unique" /\ last.res.idx = 1
    /\ files[ANode] = <<"a", "X">>

\* C3: when every earlier spec of the batch has been applied and the next
\* one (well-formed) has more than one non-overlapping occurrence of its
\* original_text in the content reached and does not set replace_all, the
\* call fails with not-unique, reports that count, and the file is unchanged.
C3_NotUnique ==
    [][\A i \in 1..Len(last'.batch) :
        LET before == ApplyFrom(read_text(files[ANode]), SubSeq(last'.batch, 1, i - 1), 1, 0)
            r == last'.batch[i]
        IN  (/\ EditStep
             /\ before.ok
             /\ WellFormed(r)
             /\ r.replace_all # "true"
             /\ Occurrences(before.content, r.original_text) > 1)
            => (/\ ~last'.res.success
                /\ last'.res.error = "not_unique"
                /\ last'.res.count = Occurrences(before.content, r.original_text)
                /\ files' = files)]_vars

\* "aXbXc" with X -> Y and replace_all false: not unique, count 2
C3_Witness ==
    /\ last.op = "search_replace"
    /\ last.batch = <<R(<<"X">>, <<"Y">>, "false")>>
    /\ files[ANode] = <<"a", "X", "b", "X", "c">>
    /\ last.res.error = "not_unique" /\ last.res.count = 2

\* C4: a successful batch leaves the content in which each spec, in order,
\* has replaced every occurrence (replace_all) or the leftmost one, and
\* returns as replacements_made the sum of the occurrence counts
\* (replace_all) and ones.
C4_ReplacementsApplied ==
    [][(EditStep /\ last'.res.success)
        => LET s == read_text(files[ANode])
               n == Len(last'.batch)
           IN  /\ files'[ANode] = write_text(ContentAfter(s, last'.batch, n))
               /\ last'.res.replacements_made = MadeAfter(s, last'.batch, n)]_vars

\* "aXbXc" with X -> Y and replace_all true: "aYbYc", 2 replacements
C4_Witness ==
    /\ last.op = "search_replace"
    /\ last.batch = <<R(<<"X">>, <<"Y">>, "true")>>
    /\ files[ANode] = <<"a", "Y", "b", "Y", "c">>
    /\ last.res.success /\ last.res.replacements_made = 2

\* C11: a search_replace call that returns success=false, for any reason
\* (an I/O failure while the final content is written included), leaves the
\* file byte-identical; one that returns success=true leaves the file
\* holding the fully applied batch.
C11_NoPartialCommit ==
    [][(last'.op = "search_replace" /\ ~last'.res.raised)
        => /\ ~last'.res.success => files' = files
           /\ last'.res.success =>
                files'[ANode] = write_text(ContentAfter(read_text(files[ANode]),
                                                        last'.batch, Len(last'.batch)))]_vars

\* C17: when every earlier spec of the batch has been applied and the next
\* one (well-formed) has no occurrence of its original_text in the content
\* reached, the call fails with text-not-found, names the index of that
\* spec, and the file is not written.
C17_NotFoundRejectsBatch ==
    [][\A i \in 1..Len(last'.batch) :
        LET before == ApplyFrom(read_text(files[ANode]), SubSeq(last'.batch, 1, i - 1), 1, 0)
            r == last'.batch[i]
        IN  (/\ EditStep
             /\ before.ok
             /\ WellFormed(r)
             /\ Occurrences(before.content, r.original_text) = 0)
            => (/\ ~last'.res.success
                /\ last'.res.error = "text_not_found"
                /\ last'.res.idx = i - 1
                /\ files' = files)]_vars

\* "aX" with a -> X applied and then "a", which the first spec has removed,
\* not found: the second spec (index 1) is named and the file is as it was
C17_Witness ==
    /\ last.op = "search_replace"
    /\ last.batch = <<R(<<"a">>, <<"X">>, "absent"), R(<<"a">>, <<"a", "X">>, "absent")>>
    /\ files[ANode] = <<"a", "X">>
    /\ last.res.error = "text_not_found" /\ last.res.idx = 1

\* C18: a search_replace call on a path that does not exist fails with
\* not-found, whatever the batch (the empty one included), and creates
\* nothing: the path does not exist afterwards either.
C18_NeverCreates ==
    [][(last'.op = "search_replace" /\ files[ANode] = Absent /\ ANode \notin dirs)
        => (/\ ~last'.res.success
            /\ last'.res.error = "not_found"
            /\ files'[ANode] = Absent /\ ANode \notin dirs'
            /\ files' = files /\ dirs' = dirs)]_vars

\* the empty batch on a missing file: not found, and still missing
C18_Witness ==
    /\ last.op = "search_replace" /\ last.batch = <<>>
    /\ last.res.error = "not_found"
    /\ files[ANode] = Absent

\* ------------- store: create_file, then read_file or create_file again

DPath == [abs |-> FALSE, segs |-> <<"d", "a.txt">>]
DirPath == [abs |-> FALSE, segs |-> <<"d">>]
StorePaths == {APath, DPath, DirPath}

\* the characters of the content passed to create_file
StoreChars == {"a", "CR", "LF"}

InitStore ==
    InitFile({"posix", "nt"}, {<<"w">>}, {Flat, WithD},
             {Absent, <<"a">>, <<"a", "CR", "LF">>}, {Absent})

NextStore ==
    \/ Fresh /\ \E p \in StorePaths, c \in TextsUpTo(StoreChars, MaxContent),
                   fault \in {"none", "mkdir", "open", "write"} :
                    create_file(p, c, fault)
    \/ /\ last.op = "create_file" /\ last.res.success
       /\ \E p \in StorePaths : read_file(p, NoRange, "none")
    \/ /\ last.op = "create_file" /\ last.res.success
       /\ \E p \in StorePaths, c \in {<<>>, <<"a">>} : create_file(p, c, "none")

SpecStore == InitStore /\ [][NextStore]_vars

\* C5: after create_file(p, c) has succeeded, read_file(p) with no line
\* range succeeds and returns content identical to c.
C5_RoundTrip ==
    [][(/\ last.op = "create_file" /\ last.res.success
        /\ last'.op = "read_file" /\ last'.path = last.path
        /\ last'.rng = NoRange /\ last'.fault = "none")
        => (last'.res.success /\ last'.res.content = last.content)]_vars

\* the target of the call exists before the step
TargetExisted(file_path) ==
    LET v == validate_path(file_path) IN v.valid /\ exists(v.full)

\* C6: create_file on a target that already exists fails with
\* already-exists, whatever the content passed, and leaves every file and
\* directory as it was.
C6_NeverOverwrites ==
    [][(last'.op = "create_file" /\ TargetExisted(last'.path))
        => (/\ ~last'.res.success
            /\ last'.res.error = "already_exists"
            /\ files' = files /\ dirs' = dirs)]_vars

\* create_file was refused on a file that holds other content than the
\* content passed
C6_Witness ==
    /\ last.op = "create_file"
    /\ last.path = APath
    /\ last.res.error = "already_exists"
    /\ files[ANode] # Absent
    /\ files[ANode] # write_text(last.content)

\* C12: a create_file call that returns success=false creates no file and
\* changes no file; at most it has made parent directories of its target.
C12_FailedCreateLeavesFiles ==
    [][(last'.op = "create_file" /\ ~last'.res.raised /\ ~last'.res.success)
        => (/\ files' = files
            /\ dirs \subseteq dirs'
            /\ dirs' \ dirs \subseteq
                    ancestors(resolve(joinpath(workdir, last'.path))))]_vars

\* ----------------------------- reads: one read_file call on /w/a.txt

ThreeLines == <<"a", "LF", "b", "LF", "c", "LF">>

\* the line numbers a call may pass: below 1, in the file, past its end
LineNumbers == (-1)..(MaxContent + 1)

Ranges ==
    {[has_start |-> hs, has_end |-> he,
      start |-> IF hs THEN a ELSE 0, end |-> IF he THEN b ELSE 0] :
        hs \in BOOLEAN, he \in BOOLEAN, a \in LineNumbers, b \in LineNumbers}

InitRead ==
    InitFile({"posix"}, {<<"w">>}, {Flat},
             TextsUpTo({"a", "LF", "CR"}, MaxContent) \cup {ThreeLines}, {Absent})

NextRead ==
    \E rng \in Ranges, fault \in {"none", "read"} :
        Fresh /\ read_file(APath, rng, fault)

SpecRead == InitRead /\ [][NextRead]_vars

\* the number of the line that holds the character at position i
LineOf(text, i) == 1 + Cardinality({j \in 1..(i - 1) : text[j] = "LF"})

\* the number of lines of a text: every LF ends a line, and so does the end
\* of a text that does not end in LF
LineCount(text) ==
    IF text = <<>> THEN 0
    ELSE LineOf(text, Len(text) + 1) - (IF text[Len(text)] = "LF" THEN 1 ELSE 0)

\* the lines a..b of a text, terminators included
LinesOf(text, a, b) ==
    LET in == {i \in 1..Len(text) : LineOf(text, i) \in a..b}
    IN  IF in = {} THEN <<>>
        ELSE SubSeq(text, CHOOSE i \in in : \A j \in in : i <= j,
                          CHOOSE i \in in : \A j \in in : i >= j)

\* C13: read_file with a range (start_line, end_line) on a file of T lines
\* fails out-of-bounds unless 1 <= start_line and end_line <= T, otherwise
\* returns exactly the lines start_line..end_line with their terminators;
\* every successful read reports total_lines = T.
C13_RangeRead ==
    [][(last'.op = "read_file" /\ last'.fault = "none")
        => LET text == read_text(files[ANode])
               T == LineCount(text)
               rng == last'.rng
           IN  /\ last'.res.success => last'.res.total_lines = T
               /\ (rng.has_start /\ rng.has_end) =>
                    IF 1 <= rng.start /\ rng.end <= T
                    THEN /\ last'.res.success
                         /\ last'.res.content = LinesOf(text, rng.start, rng.end)
                    ELSE /\ ~last'.res.success
                         /\ last'.res.error = "out_of_bounds"]_vars

\* ------------- api: File(workdir) is constructed, then one method is called

\* a workdir below a regular file
UnderFile == OutsideFile \o <<"sub">>

\* File.__init__: a missing workdir is made with mkdir(parents=True), which
\* raises when an ancestor is a regular file; nothing catches it, in File or
\* in the wrappers of src/toollm/functions.py (lines 193, 213, 241, 259, 281)
File_init ==
    LET under_file == \E q \in ancestors(workdir) : is_file(q)
    IN  /\ dirs' = IF exists(workdir) \/ under_file THEN dirs
                   ELSE dirs \cup {workdir} \cup ancestors(workdir)
        /\ last' = Call("File", NoPath, <<>>, <<>>, NoRange, FALSE, "none",
                        IF ~exists(workdir) /\ under_file THEN Raised
                        ELSE [NoRes EXCEPT !.success = TRUE])
        /\ UNCHANGED <<platform, workdir, files, procs, tempdirs>>

Constructed == last.op = "File" /\ ~last.res.raised

ApiPaths == {APath, DirPath, [abs |-> FALSE, segs |-> <<"..", "a.txt">>]}

InitApi ==
    InitFile({"posix"}, {<<"w">>, <<"w", "d">>, UnderFile}, {Flat, WithD},
             {Absent, <<"a">>}, {Absent, <<"a">>})

NextApi ==
    \/ Fresh /\ File_init
    \/ Constructed /\ \E p \in ApiPaths, fault \in {"none", "stat", "read"} :
                        read_file(p, NoRange, fault)
    \/ Constructed /\ \E p \in ApiPaths, fault \in {"none", "stat", "mkdir", "write"} :
                        create_file(p, <<"a">>, fault)
    \/ Constructed /\ \E p \in ApiPaths, b \in {x \in Batches : Len(x) <= 1},
                         fault \in {"none", "stat", "read", "write"} :
                        search_replace(p, b, fault)
    \/ Constructed /\ \E p \in ApiPaths, fault \in {"none", "stat", "unlink"} :
                        delete_file(p, fault)
    \/ Constructed /\ \E p \in ApiPaths \cup {NoPath}, recursive \in BOOLEAN,
                         fault \in {"none", "stat", "iterdir"} :
                        list_files(p, recursive, fault)

SpecApi == InitApi /\ [][NextApi]_vars

\* C16: the construction of File on a workdir and every call of read_file,
\* create_file, search_replace, delete_file and list_files raise nothing;
\* each call returns success, or a failure with an error classification.
C16_NoFaultReachesCaller ==
    [][(last'.op \in FileOps \cup {"File"})
        => (/\ ~last'.res.raised
            /\ last'.res.success \/ last'.res.error # "none")]_vars

\* ---------------------------------------------- CommandRunner (src/cmd.py)

\* the timeout of a runner constructed without one
DefaultTimeout == 60
MaxTimeout == 2
MaxRun == 3
MaxKids == 1
MaxUpper == 2

Whitespace == {" ", "TAB", "LF", "CR"}

\* str.strip(): leading and trailing whitespace removed
RECURSIVE lstrip(_)
lstrip(s) ==
    IF s # <<>> /\ Head(s) \in Whitespace THEN lstrip(Tail(s)) ELSE s

RECURSIVE rstrip(_)
rstrip(s) ==
    IF s # <<>> /\ s[Len(s)] \in Whitespace
    THEN rstrip(SubSeq(s, 1, Len(s) - 1)) ELSE s

strip(s) == rstrip(lstrip(s))

\* self.blocked_patterns
blocked_patterns ==
    <<
      <<"r", "m", " ", "-", "r", "f", " ", "/">>,
      <<"r", "m", " ", "-", "r", "f", " ", "/", "*">>,
      <<"f", "o", "r", "m", "a", "t", " ", "c", ":">>,
      <<"s", "h", "u", "t", "d", "o", "w", "n">>,
      <<"r", "e", "b", "o", "o", "t">>,
      <<"h", "a", "l", "t">>,
      <<"p", "o", "w", "e", "r", "o", "f", "f">>,
      <<"m", "k", "f", "s">>,
      <<"f", "d", "i", "s", "k">>
    >>

\* a mutant of _is_blocked: the command is not lowered
BlockedCaseSensitive(command) ==
    \E k \in 1..Len(blocked_patterns) :
        find(strip(command), blocked_patterns[k], 1) # 0

\* CommandRunner._is_blocked: any(pattern in cmd_lower ...)
is_blocked(command) ==
    LET cmd_lower == strip(lower(command))
    IN  \E k \in 1..Len(blocked_patterns) :
            find(cmd_lower, blocked_patterns[k], 1) # 0

\* the keyword arguments of a call: timeout given or not, and one more
\* argument: "cwd" (execute passes cwd itself: a duplicate keyword),
\* "bogus" (unknown to Popen), "check" (check=True), "preexec_fn" (a
\* function the child calls before the shell starts, here os.chdir('/')),
\* or "none"
NoKwargs == [has_timeout |-> FALSE, timeout |-> 0, extra |-> "none"]

\* what the host does with a spawned command: whether the spawn works, how
\* long the command runs, its exit code, whether it has written output,
\* whether that output is valid UTF-8, and how many processes the shell has
\* forked for it
NoEnv ==
    [spawn |-> "ok", runtime |-> 0, returncode |-> 0, output |-> FALSE,
     decodable |-> TRUE, descendants |-> 0, cleanup |-> "ok"]

\* the directory no process runs in
NoCwd == <<"none">>

ResultKeys == {"success", "returncode", "stdout", "stderr", "workdir"}

\* the dict execute returns: its keys, their values (stdout: whether any
\* output is reported), and the command and the timeout its error message
\* quotes
CmdRes(keys, success, error, returncode, stdout, wd, command, seconds) ==
    [keys |-> keys, success |-> success, error |-> error,
     returncode |-> returncode, stdout |-> stdout, workdir |-> wd,
     names_command |-> command, names_timeout |-> seconds]

NoCmdRes == CmdRes({}, FALSE, "none", 0, FALSE, <<>>, <<>>, 0)

\* a mutant of line 96: the timeout of the call is ignored
TimeoutOfRunner(kwargs, self_timeout) == self_timeout

\* line 96: kwargs.get('timeout', self.timeout)
timeout_in_effect(kwargs, self_timeout) ==
    IF kwargs.has_timeout THEN kwargs.timeout ELSE self_timeout

\* lines 78-125 of execute: the returned dict, whether a process was
\* spawned, whether the timeout expired, and the processes left running
ExecuteOutcome(command, kwargs, self_timeout, wd, env) ==
    LET failed(e) ==
            CmdRes(ResultKeys \cup {"error"}, FALSE, e, -1, FALSE, wd,
                   IF e = "blocked" THEN command ELSE <<>>,
                   IF e = "timeout" THEN self_timeout ELSE 0)
        \* the child changes to cwd, and then calls preexec_fn
        out(res, spawned, expired, left) ==
            [res |-> res, spawned |-> spawned, expired |-> expired, left |-> left,
             cwd |-> IF ~spawned THEN NoCwd
                     ELSE IF kwargs.extra = "preexec_fn" THEN <<>> ELSE wd]
    IN  IF is_blocked(command) THEN out(failed("blocked"), FALSE, FALSE, 0)
        \* a duplicate or unknown keyword raises TypeError before the spawn
        ELSE IF kwargs.extra \in {"cwd", "bogus"}
        THEN out(failed("execution_error"), FALSE, FALSE, 0)
        ELSE IF env.spawn = "fault"
        THEN out(failed("execution_error"), FALSE, FALSE, 0)
        \* TimeoutExpired: run() kills the shell it spawned, and only it
        ELSE IF env.runtime > timeout_in_effect(kwargs, self_timeout)
        THEN out(failed("timeout"), TRUE, TRUE, env.descendants)
        \* text=True: output that is not valid UTF-8 raises UnicodeDecodeError
        ELSE IF env.output /\ ~env.decodable
        THEN out(failed("execution_error"), TRUE, FALSE, 0)
        \* check=True raises CalledProcessError on a nonzero exit
        ELSE IF kwargs.extra = "check" /\ env.returncode # 0
        THEN out(failed("execution_error"), TRUE, FALSE, 0)
        ELSE out(CmdRes(ResultKeys, env.returncode = 0, "none",
                        env.returncode, env.output, wd, <<>>, 0),
                 TRUE, FALSE, 0)

\* the record of a command call
CmdCall(op, command, kwargs, self_timeout, wdarg, env, o, raised) ==
    [op |-> op, command |-> command, kwargs |-> kwargs,
     self_timeout |-> self_timeout, wdarg |-> wdarg, env |-> env,
     res |-> o.res, spawned |-> o.spawned, expired |-> o.expired,
     cwd |-> o.cwd, raised |-> raised]

\* CommandRunner(workdir, timeout=self_timeout).execute(command, **kwargs)
execute(command, kwargs, self_timeout, env) ==
    LET o == ExecuteOutcome(command, kwargs, self_timeout, workdir, env)
    IN  /\ procs' = procs + o.left
        /\ last' = CmdCall("execute", command, kwargs, self_timeout, "dir", env, o, FALSE)
        /\ UNCHANGED <<platform, workdir, files, dirs, tempdirs>>

\* ------------------------------- execute_command (src/toollm/functions.py)

TempDir == <<"tmp", "llm_cmd_">>
NewDir == <<"w", "d">>

\* the workdir argument: None, '', an existing directory (the workdir), an
\* existing regular file (OutsideFile), or a directory that does not exist
WorkdirArgs == {"none", "empty", "dir", "file", "new"}

\* CommandRunner.__init__: Path(workdir).mkdir(parents=True, exist_ok=True)
\* raises FileExistsError when the path is a regular file
init_raises(wdarg) == wdarg = "file" /\ is_file(OutsideFile)

\* CommandRunner.cleanup: shutil.rmtree(self.workdir) raises when the
\* command has left something in the directory that cannot be removed
cleanup_raises(is_temp, spawned, env) ==
    is_temp /\ spawned /\ env.cleanup = "fault"

execute_command(command, wdarg, timeout, extra, env) ==
    LET is_temp == wdarg \in {"none", "empty"}
        wd == IF is_temp THEN TempDir
              ELSE IF wdarg = "new" THEN NewDir ELSE workdir
        kwargs == [NoKwargs EXCEPT !.extra = extra]
        o == ExecuteOutcome(command, kwargs, timeout, wd, env)
        nothing == [res |-> NoCmdRes, spawned |-> FALSE, expired |-> FALSE, left |-> 0,
                    cwd |-> NoCwd]
    IN  IF init_raises(wdarg)
        THEN /\ last' = CmdCall("execute_command", command, kwargs, timeout,
                                wdarg, env, nothing, TRUE)
             /\ UNCHANGED <<platform, workdir, files, dirs, procs, tempdirs>>
        ELSE /\ dirs' = IF wdarg = "new" THEN dirs \cup {NewDir} ELSE dirs
             /\ procs' = procs + o.left
             \* mkdtemp made a directory; the finally block removes it
             /\ tempdirs' = IF cleanup_raises(is_temp, o.spawned, env)
                            THEN tempdirs + 1 ELSE tempdirs
             /\ last' = IF cleanup_raises(is_temp, o.spawned, env)
                        THEN CmdCall("execute_command", command, kwargs, timeout,
                                     wdarg, env, [o EXCEPT !.res = NoCmdRes], TRUE)
                        ELSE CmdCall("execute_command", command, kwargs, timeout,
                                     wdarg, env, o, FALSE)
             /\ UNCHANGED <<platform, workdir, files>>

\* ------------------------------------------- commands: one call, any host

\* a pattern with the letters at the positions ups in upper case
Cased(pattern, ups) ==
    [i \in 1..Len(pattern) |->
        IF i \in ups /\ \E k \in 1..Len(LowerCase) : LowerCase[k] = pattern[i]
        THEN UpperCase[CHOOSE k \in 1..Len(LowerCase) : LowerCase[k] = pattern[i]]
        ELSE pattern[i]]

Echo == <<"e", "c", "h", "o", " ">>
Ls == <<"l", "s">>

\* commands that hold no pattern: near misses of the patterns
Harmless ==
    {Ls, <<"r", "m", " ", "-", "r", "f", " ">>, <<"h", "a", "l", " ", "t">>,
     <<"s", "h", "u", "t", "d", "o", "w">>, <<"F", "D", "I", "S">>}

CasedPatterns ==
    {Cased(blocked_patterns[k], ups) :
        k \in 1..Len(blocked_patterns),
        ups \in {u \in SUBSET (1..9) : Cardinality(u) <= MaxUpper}}

\* a pattern or a near miss, at the start, in the middle or at the end
Commands ==
    {pre \o core \o post :
        pre \in {<<>>, <<" ">>, Echo},
        core \in CasedPatterns \cup Harmless,
        post \in {<<>>, <<" ">>, <<"x">>}}

Timeouts == (1..MaxTimeout) \cup {DefaultTimeout}

Kwargs ==
    {[has_timeout |-> t > 0, timeout |-> t, extra |-> x] :
        t \in 0..MaxTimeout, x \in {"none", "cwd", "bogus", "check"}}

Envs ==
    [spawn : {"ok", "fault"}, runtime : (0..MaxRun) \cup {DefaultTimeout + 1},
     returncode : {0, 1}, output : BOOLEAN, decodable : {TRUE},
     descendants : 0..MaxKids,
     cleanup : {"ok", "fault"}]

Shutdown == <<"S", "H", "u", "t", "d", "o", "w", "n">>

InitCmd == InitFile({"posix"}, {<<"w">>}, {Flat}, {Absent}, {Absent})

NextCmd ==
    \/ Fresh /\ \E command \in Commands, spawn \in {"ok", "fault"} :
                    execute(command, NoKwargs, DefaultTimeout,
                            [NoEnv EXCEPT !.spawn = spawn, !.runtime = 1])
    \/ Fresh /\ \E command \in {Ls, Echo \o Shutdown}, kwargs \in Kwargs,
                   self_timeout \in Timeouts,
                   env \in {e \in Envs : e.cleanup = "ok"} :
                    execute(command, kwargs, self_timeout, env)
    \/ Fresh /\ \E command \in {Ls, Echo \o Shutdown}, wdarg \in WorkdirArgs,
                   timeout \in Timeouts,
                   extra \in {"none", "cwd", "bogus", "check"},
                   env \in {e \in Envs : e.output} :
                    execute_command(command, wdarg, timeout, extra, env)

SpecCmd == InitCmd /\ [][NextCmd]_vars

\* two characters are the same letter, whatever their case
SameLetter(a, b) ==
    a = b \/ \E k \in 1..Len(UpperCase) : {a, b} = {UpperCase[k], LowerCase[k]}

\* the command holds a blocklisted pattern somewhere, in any case
HoldsPattern(command) ==
    \E k \in 1..Len(blocked_patterns), i \in 1..Len(command) :
        /\ i + Len(blocked_patterns[k]) - 1 <= Len(command)
        /\ \A j \in 1..Len(blocked_patterns[k]) :
                SameLetter(command[i + j - 1], blocked_patterns[k][j])

\* C7: execute on a command that holds a blocklisted pattern, in any case
\* and at any place, spawns no process and returns success=false with the
\* blocked-command error that names the command.
C7_BlockedNeverSpawns ==
    [][(last'.op = "execute" /\ HoldsPattern(last'.command))
        => (/\ ~last'.res.success
            /\ last'.res.error = "blocked"
            /\ last'.res.names_command = last'.command
            /\ ~last'.spawned
            /\ procs' = procs)]_vars

\* "echo SHutdown" was blocked: the pattern is an argument, in mixed case
C7_Witness ==
    /\ last.op = "execute"
    /\ last.command = Echo \o Shutdown
    /\ last.res.error = "blocked"
    /\ ~last.spawned

\* the timeout the call runs under: its own, or else the runner's
EffectiveTimeout(call) ==
    IF call.kwargs.has_timeout THEN call.kwargs.timeout ELSE call.self_timeout

\* C8: when the spawned command runs longer than the timeout in effect,
\* execute returns success=false with the timeout error, also when the
\* command had written output.
C8_TimeoutFails ==
    [][(/\ last'.op = "execute" /\ last'.spawned
        /\ last'.env.runtime > EffectiveTimeout(last'))
        => (~last'.res.success /\ last'.res.error = "timeout")]_vars

\* a command that had written output ran past the timeout of its call,
\* which is shorter than the runner's
C8_Witness ==
    /\ last.op = "execute"
    /\ last.kwargs.has_timeout
    /\ last.env.runtime > last.kwargs.timeout
    /\ last.env.runtime <= last.self_timeout
    /\ last.env.output
    /\ last.res.error = "timeout" /\ ~last.res.stdout

\* C9: when the timeout of an execute call has expired, no process the
\* call started is still running once it has returned.
C9_NoProcessLeft ==
    [][(last'.op = "execute" /\ last'.expired) => procs' = procs]_vars

\* C10: execute and execute_command return a result that has success,
\* returncode, stdout, stderr and workdir, and raise nothing.
C10_AlwaysStructured ==
    [][(last'.op \in {"execute", "execute_command"})
        => (~last'.raised /\ ResultKeys \subseteq last'.res.keys)]_vars

\* ------------------- fetch_url, download_file (src/toollm/functions.py)

\* what the request does: it is answered, it fails (HTTP status, timeout,
\* connection), or the caller is interrupted while it waits
HttpOutcomes == {"ok", "http_error", "timeout", "request_error", "interrupt"}
Formats == {"content", "raw", "json", "bogus"}

FetchCall(op, wdarg, format, http, success, error, raised) ==
    [op |-> op, wdarg |-> wdarg, format |-> format, http |-> http,
     res |-> [success |-> success, error |-> error], raised |-> raised]

\* Fetch.__init__ (src/toollm/fetch.py:29-31): the workdir is made when it
\* is missing; mkdir raises when the path is a regular file
fetch_workdir(wdarg) ==
    IF wdarg = "new" THEN NewDir
    ELSE IF wdarg = "file" THEN OutsideFile
    ELSE IF wdarg = "none" THEN TempDir
    ELSE workdir

\* fetch_url(url, format, workdir): workdir None makes a temporary
\* directory, which the finally block removes; '' is the current directory
fetch_url(wdarg, format, http) ==
    IF init_raises(wdarg)
    THEN /\ last' = FetchCall("fetch_url", wdarg, format, http, FALSE, "none", TRUE)
         /\ UNCHANGED <<platform, workdir, files, dirs, procs, tempdirs>>
    ELSE /\ dirs' = IF wdarg = "new" THEN dirs \cup {NewDir} ELSE dirs
         /\ last' = IF format = "bogus"
                    THEN FetchCall("fetch_url", wdarg, format, http, FALSE,
                                   "invalid_format", FALSE)
                    ELSE IF http = "interrupt"
                    THEN FetchCall("fetch_url", wdarg, format, http, FALSE, "none", TRUE)
                    ELSE FetchCall("fetch_url", wdarg, format, http, http = "ok",
                                   IF http = "ok" THEN "none" ELSE http, FALSE)
         \* mkdtemp, then shutil.rmtree(temp_dir, ignore_errors=True)
         /\ tempdirs' = tempdirs
         /\ UNCHANGED <<platform, workdir, files, procs>>

\* download_file(url, 'a.txt', workdir): workdir None makes a temporary
\* directory, and nothing removes it; the file is written as received
download_file(wdarg, http, body) ==
    LET target == fetch_workdir(wdarg) \o <<"a.txt">>
    IN  IF init_raises(wdarg)
        THEN /\ last' = FetchCall("download_file", wdarg, "raw", http, FALSE, "none", TRUE)
             /\ UNCHANGED <<platform, workdir, files, dirs, procs, tempdirs>>
        ELSE /\ dirs' = IF wdarg = "new" THEN dirs \cup {NewDir} ELSE dirs
             /\ tempdirs' = IF wdarg = "none" THEN tempdirs + 1 ELSE tempdirs
             /\ files' = IF http = "ok" /\ target \in FileNodes
                         THEN [files EXCEPT ![target] = body] ELSE files
             /\ last' = IF http = "interrupt"
                        THEN FetchCall("download_file", wdarg, "raw", http, FALSE,
                                       "none", TRUE)
                        ELSE FetchCall("download_file", wdarg, "raw", http, http = "ok",
                                       IF http = "ok" THEN "none" ELSE http, FALSE)
             /\ UNCHANGED <<platform, workdir, procs>>

\* ---------------------------------- Fetch.download (src/toollm/fetch.py)

\* no filename: the argument is None, the response has no
\* Content-Disposition filename
NoName == [abs |-> FALSE, segs |-> <<"none">>]

Rel(segs) == [abs |-> FALSE, segs |-> segs]

\* _get_filename_from_response: the filename of the Content-Disposition
\* header as it stands, or else the last component of the URL's path
get_filename_from_response(header, url_name) ==
    IF header # NoName THEN header ELSE Rel(<<url_name>>)

\* file_path.parent.mkdir(parents=True, exist_ok=True) on the unresolved
\* path: every prefix of the parent that names nothing is made, one after
\* the other, until one names a regular file
RECURSIVE MadeByMkdir(_, _)
MadeByMkdir(parent, k) ==
    IF k > Len(parent) \/ is_file(resolve(SubSeq(parent, 1, k))) THEN {}
    ELSE {resolve(SubSeq(parent, 1, k))} \cup MadeByMkdir(parent, k + 1)

MkdirFails(parent) ==
    \E k \in 1..Len(parent) : is_file(resolve(SubSeq(parent, 1, k)))

\* Fetch(workdir).download(url, filename): the filename is checked by
\* resolving it (lines 144-151), the parent directory is made and the file
\* opened by the path as joined (lines 154-157)
download(filename, header, url_name, http, body) ==
    LET name == IF filename # NoName THEN filename
                ELSE get_filename_from_response(header, url_name)
        file_path == joinpath(workdir, name)
        target == resolve(file_path)
        parent == SubSeq(file_path, 1, Len(file_path) - 1)
        inside == IsPrefix(resolve(workdir), target)
        opens == ~MkdirFails(parent) /\ target \in FileNodes
        error == IF http # "ok" THEN http
                 ELSE IF ~inside THEN "invalid_filename"
                 ELSE IF ~opens THEN "unexpected_error"
                 ELSE "none"
    IN  /\ dirs' = IF http = "ok" /\ inside
                   THEN dirs \cup MadeByMkdir(parent, 1) ELSE dirs
        /\ files' = IF error = "none" THEN [files EXCEPT ![target] = body] ELSE files
        /\ last' = [op |-> "download", name |-> name, http |-> http,
                    source |-> IF filename # NoName THEN "argument"
                               ELSE IF header # NoName THEN "header" ELSE "url",
                    res |-> [success |-> error = "none", error |-> error]]
        /\ UNCHANGED <<platform, workdir, procs, tempdirs>>

\* ------------------------- downloads: one download call, any filename

\* filenames that stay in the workdir, that leave it (by "..", by an
\* absolute path, by the link /w/l), and that leave it and come back
Filenames ==
    {Rel(<<"a.txt">>), Rel(<<"d", "a.txt">>), Rel(<<"d", "..", "a.txt">>),
     Rel(<<"..", "a.txt">>), Rel(<<"..">>), Rel(<<"l", "a.txt">>),
     [abs |-> TRUE, segs |-> <<"a.txt">>], [abs |-> TRUE, segs |-> <<"w", "a.txt">>],
     Rel(<<"..", "n", "..", "w", "a.txt">>), Rel(<<"l", "n", "..", "w", "a.txt">>)}

InitFetch ==
    InitFile({"posix"}, {<<"w">>, <<"lw">>}, {Flat, WithD},
             {Absent, <<"a">>}, {Absent})

NextFetch ==
    \/ Fresh /\ \E filename \in Filenames, http \in {"ok", "http_error", "timeout"},
                   body \in {<<>>, <<"X">>} :
                    download(filename, NoName, "a.txt", http, body)
    \/ Fresh /\ \E header \in Filenames, body \in {<<>>, <<"X">>} :
                    download(NoName, header, "a.txt", "ok", body)
    \/ Fresh /\ \E url_name \in {"a.txt", ".."}, body \in {<<>>, <<"X">>} :
                    download(NoName, NoName, url_name, "ok", body)

SpecFetch == InitFetch /\ [][NextFetch]_vars

\* the node lies in the workdir
InWorkdir(node) == IsPrefix(resolve(workdir), node)

\* C25: a download call changes no file and makes no directory outside the
\* workdir; when the filename it saves under resolves outside the workdir,
\* it fails and creates nothing at all.
C25_DownloadStaysInside ==
    [][(last'.op = "download")
        => (/\ \A d \in dirs' \ dirs : InWorkdir(d)
            /\ \A p \in FileNodes : ~InWorkdir(p) => files'[p] = files[p]
            /\ ~InWorkdir(resolve(joinpath(workdir, last'.name)))
                => (/\ ~last'.res.success
                    /\ files' = files /\ dirs' = dirs))]_vars

\* ------------------ temporary workdirs: one call of the function-style API

InitTemp == InitFile({"posix"}, {<<"w">>}, {Flat, WithD}, {Absent, <<"a">>}, {Absent})

NextTemp ==
    \/ Fresh /\ \E command \in {Ls, Echo \o Shutdown}, wdarg \in WorkdirArgs,
                   extra \in {"none", "cwd", "check"},
                   env \in {e \in Envs : e.output /\ e.cleanup = "ok"
                                         /\ e.runtime \in {0, DefaultTimeout + 1}} :
                    execute_command(command, wdarg, DefaultTimeout, extra, env)
    \/ Fresh /\ \E wdarg \in WorkdirArgs, format \in Formats, http \in HttpOutcomes :
                    fetch_url(wdarg, format, http)
    \/ Fresh /\ \E wdarg \in WorkdirArgs \ {"empty"}, http \in HttpOutcomes,
                   body \in {<<>>, <<"a">>, <<"CR", "LF">>} :
                    download_file(wdarg, http, body)

SpecTemp == InitTemp /\ [][NextTemp]_vars

\* the call was given no workdir, so it made a temporary one
MadeTempDir(call) ==
    \/ call.op = "execute_command" /\ call.wdarg \in {"none", "empty"}
    \/ call.op \in {"fetch_url", "download_file"} /\ call.wdarg = "none"

\* C15: when execute_command, fetch_url or download_file has made a
\* temporary workdir, no temporary directory is left once the call has
\* returned a result, returned an error or raised.
C15_TempWorkdirRemoved ==
    [][(last'.op \in {"execute_command", "fetch_url", "download_file"}
            /\ MadeTempDir(last'))
        => tempdirs' = tempdirs]_vars

\* ------------------- runner: one CommandRunner, any sequence of its calls

\* what a call on the runner leaves in `last`: the runner itself (its
\* workdir, _is_temp and timeout), whether control is inside its with-block,
\* whether it has run a command, and the call's outcome
NoRunner == [is_temp |-> FALSE, workdir |-> <<>>, timeout |-> 0]

RunnerCall(op, self, in_with, ran, command, env, o, fault, exc, raised) ==
    [op |-> op, self |-> self, in_with |-> in_with, ran |-> ran,
     command |-> command, env |-> env, res |-> o.res, spawned |-> o.spawned,
     fault |-> fault, exc |-> exc, raised |-> raised]

NoOutcome ==
    [res |-> NoCmdRes, spawned |-> FALSE, expired |-> FALSE, left |-> 0, cwd |-> NoCwd]

HasRunner == last.op # "init" /\ last.self # NoRunner

\* CommandRunner(workdir, timeout), alone or as the head of a with statement
\* (__enter__ returns self)
construct(wdarg, timeout, in_with) ==
    LET is_temp == wdarg \in {"none", "empty"}
        wd == IF is_temp THEN TempDir
              ELSE IF wdarg = "new" THEN NewDir
              ELSE IF wdarg = "file" THEN OutsideFile ELSE workdir
        self == [is_temp |-> is_temp, workdir |-> wd, timeout |-> timeout]
    IN  IF init_raises(wdarg)
        THEN /\ last' = RunnerCall("construct", NoRunner, FALSE, FALSE, <<>>,
                                   NoEnv, NoOutcome, "none", FALSE, TRUE)
             /\ UNCHANGED <<platform, workdir, files, dirs, procs, tempdirs>>
        ELSE \* mkdtemp, or mkdir(parents=True, exist_ok=True)
             /\ dirs' = dirs \cup {wd}
             /\ tempdirs' = IF is_temp THEN tempdirs + 1 ELSE tempdirs
             /\ last' = RunnerCall("construct", self, in_with, FALSE, <<>>,
                                   NoEnv, NoOutcome, "none", FALSE, FALSE)
             /\ UNCHANGED <<platform, workdir, files, procs>>

\* runner.execute(command): subprocess.run raises FileNotFoundError when the
\* cwd is gone, which execute turns into an execution error
runner_execute(command, env) ==
    LET self == last.self
        gone == [res |-> CmdRes(ResultKeys \cup {"error"}, FALSE, "execution_error",
                                -1, FALSE, self.workdir, <<>>, 0),
                 spawned |-> FALSE, expired |-> FALSE, left |-> 0, cwd |-> NoCwd]
        o == IF self.workdir \notin dirs /\ ~is_blocked(command) THEN gone
             ELSE ExecuteOutcome(command, NoKwargs, self.timeout, self.workdir, env)
    IN  /\ procs' = procs + o.left
        /\ last' = RunnerCall("execute", self, last.in_with, TRUE, command, env,
                              o, "none", FALSE, FALSE)
        /\ UNCHANGED <<platform, workdir, files, dirs, tempdirs>>

\* a mutant of line 157: the directory is removed whoever made it
RemovesAny(self) == self.workdir \in dirs

\* line 157: self._is_temp and self.workdir.exists()
removes(self) == self.is_temp /\ self.workdir \in dirs

\* lines 157-158: shutil.rmtree(self.workdir) removes the directory and all
\* below it, or raises and leaves it when the host refuses the removal
CleanupOutcome(self, fault) ==
    IF removes(self) /\ fault = "none"
    THEN [dirs |-> {d \in dirs : ~IsPrefix(self.workdir, d)},
          files |-> [p \in FileNodes |->
                        IF IsPrefix(self.workdir, p) THEN Absent ELSE files[p]],
          tempdirs |-> IF self.is_temp THEN tempdirs - 1 ELSE tempdirs,
          raised |-> FALSE]
    ELSE [dirs |-> dirs, files |-> files, tempdirs |-> tempdirs,
          raised |-> removes(self)]

\* runner.cleanup()
cleanup(fault) ==
    LET self == last.self
        c == CleanupOutcome(self, fault)
    IN  /\ dirs' = c.dirs
        /\ files' = c.files
        /\ tempdirs' = c.tempdirs
        /\ last' = RunnerCall("cleanup", self, last.in_with, last.ran, <<>>,
                              NoEnv, NoOutcome, fault, FALSE, c.raised)
        /\ UNCHANGED <<platform, workdir, procs>>

\* control leaves the with-block, normally or by an exception of the body:
\* __exit__ calls cleanup and returns None, so the exception goes on
with_exit(exc, fault) ==
    LET self == last.self
        c == CleanupOutcome(self, fault)
    IN  /\ dirs' = c.dirs
        /\ files' = c.files
        /\ tempdirs' = c.tempdirs
        /\ last' = RunnerCall("exit", self, FALSE, last.ran, <<>>,
                              NoEnv, NoOutcome, fault, exc, exc \/ c.raised)
        /\ UNCHANGED <<platform, workdir, procs>>

RunnerFaults == {"none", "rmtree"}

InitRunner == InitFile({"posix"}, {<<"w">>}, {Flat, WithD}, {Absent, <<"a">>}, {Absent})

NextRunner ==
    \/ Fresh /\ \E wdarg \in WorkdirArgs, timeout \in Timeouts, in_with \in BOOLEAN :
                    construct(wdarg, timeout, in_with)
    \/ HasRunner /\ \E command \in {Ls, Echo \o Shutdown}, spawn \in {"ok", "fault"},
                       output \in BOOLEAN :
                    runner_execute(command, [NoEnv EXCEPT !.spawn = spawn,
                                                          !.output = output])
    \/ HasRunner /\ \E fault \in RunnerFaults : cleanup(fault)
    \/ HasRunner /\ last.in_with
                 /\ \E exc \in BOOLEAN, fault \in RunnerFaults : with_exit(exc, fault)

SpecRunner == InitRunner /\ [][NextRunner]_vars

BinPath == [abs |-> FALSE, segs |-> <<"b.bin">>]
UpperPath == [abs |-> FALSE, segs |-> <<"A.TXT">>]
KindPaths == {APath, BinPath, UpperPath}

\* the workdir holds any of a.txt, b.bin, A.TXT and d/a.txt, each with any
\* of the given contents
InitKinds(contents, dirsets) ==
    /\ platform = "posix"
    /\ workdir = <<"w">>
    /\ files \in {[p \in FileNodes |->
                        IF p = OutsideFile THEN <<"a">>
                        ELSE IF p = ANode THEN a
                        ELSE IF p = BinNode THEN b
                        ELSE IF p = UpperNode THEN u
                        ELSE Absent] :
                   a \in contents, b \in contents, u \in contents}
    /\ dirs \in dirsets
    /\ procs = 0
    /\ tempdirs = 0
    /\ last = Call("init", NoPath, <<>>, <<>>, NoRange, FALSE, "none", NoRes)

InitExt == InitKinds({Absent, <<"a">>, <<"a", "X">>}, {Flat})

NextExt ==
    \/ Fresh /\ \E p \in KindPaths : read_file(p, NoRange, "none")
    \/ Fresh /\ \E p \in KindPaths, c \in {<<>>, <<"a">>} : create_file(p, c, "none")
    \/ Fresh /\ \E p \in KindPaths, b \in {x \in Batches : Len(x) <= 1} :
                    search_replace(p, b, "none")

SpecExt == InitExt /\ [][NextExt]_vars

\* the extension of the path's name is on the allow-list, whatever its case
OnAllowList(p) ==
    \E e \in SUPPORTED_TEXT_EXTENSIONS :
        LET s == suffix(p.segs)
        IN  Len(s) = Len(e) /\ \A i \in 1..Len(e) : SameLetter(s[i], e[i])

\* the node a path of the workdir names
NodeOf(p) == workdir \o p.segs

\* C19: read_file and search_replace on an existing file, and create_file on
\* a missing one, are rejected as unsupported-type when the extension of the
\* path, compared without regard to case, is not on the allow-list; no
\* content is returned and no file is written.
C19_ExtensionGate ==
    [][(/\ last'.op \in {"read_file", "create_file", "search_replace"}
        /\ ~OnAllowList(last'.path)
        /\ ((last'.op = "create_file") <=> (files[NodeOf(last'.path)] = Absent)))
        => (/\ ~last'.res.success
            /\ last'.res.error = "unsupported_type"
            /\ last'.res.content = <<>>
            /\ files' = files)]_vars

\* ------------- deletes: delete_file, then read_file or create_file of it

InitDelete == InitKinds({Absent, <<"a">>}, {Flat, WithD})

Deleted == last.op = "delete_file" /\ last.res.success

NextDelete ==
    \/ Fresh /\ \E p \in KindPaths \cup {DirPath}, fault \in {"none", "unlink"} :
                    delete_file(p, fault)
    \/ Deleted /\ read_file(last.path, NoRange, "none")
    \/ Deleted /\ \E c \in {<<>>, <<"a">>, <<"a", "LF">>} : create_file(last.path, c, "none")

SpecDelete == InitDelete /\ [][NextDelete]_vars

\* a delete_file call that meets no I/O fault: not-found on a missing
\* target, a failure that removes nothing on a directory, and otherwise
\* that file, and only it, is gone
DeleteEffect ==
    (last'.op = "delete_file" /\ last'.fault = "none")
        => LET n == NodeOf(last'.path)
           IN  IF n \notin dirs /\ (n \notin FileNodes \/ files[n] = Absent)
               THEN /\ ~last'.res.success /\ last'.res.error = "not_found"
                    /\ files' = files /\ dirs' = dirs
               ELSE IF n \in dirs
               THEN /\ ~last'.res.success /\ last'.res.error # "none"
                    /\ files' = files /\ dirs' = dirs
               ELSE /\ last'.res.success
                    /\ files'[n] = Absent
                    /\ \A q \in FileNodes \ {n} : files'[q] = files[q]
                    /\ dirs' = dirs

\* read_file of the path just deleted returns not-found
ReadAfterDelete ==
    (Deleted /\ last'.op = "read_file" /\ last'.path = last.path)
        => (~last'.res.success /\ last'.res.error = "not_found")

\* create_file of the path just deleted succeeds and stores the content
CreateAfterDelete(paths) ==
    (Deleted /\ last'.op = "create_file" /\ last'.path = last.path
        /\ last'.path \in paths)
        => (/\ last'.res.success
            /\ files'[NodeOf(last'.path)] = write_text(last'.content))

ExitKwargs ==
    {[has_timeout |-> t > 0, timeout |-> t, extra |-> x] :
        t \in 0..MaxTimeout, x \in {"none", "cwd", "bogus", "check", "preexec_fn"}}

ExitEnvs ==
    [spawn : {"ok", "fault"}, runtime : {0, MaxRun}, returncode : {0, 1, 2},
     output : BOOLEAN, decodable : BOOLEAN, descendants : {0}, cleanup : {"ok"}]

InitExit == InitFile({"posix"}, {<<"w">>}, {Flat, WithD}, {Absent, <<"a">>}, {Absent})

NextExit ==
    \/ Fresh /\ \E kwargs \in ExitKwargs, self_timeout \in Timeouts, env \in ExitEnvs :
                    execute(Ls, kwargs, self_timeout, env)
    \/ Fresh /\ \E kwargs \in ExitKwargs, env \in ExitEnvs :
                    execute(Echo \o Shutdown, kwargs, DefaultTimeout, env)

SpecExit == InitExit /\ [][NextExit]_vars

\* C21: an execute call whose process was spawned, ran to its end within
\* the timeout and left output that could be captured returns success
\* exactly when the exit code is 0, with that exit code, the captured
\* output and no error entry.
C21_SuccessIsExitZero ==
    [][(/\ last'.op = "execute" /\ last'.spawned /\ ~last'.expired
        /\ last'.env.output => last'.env.decodable)
        => (/\ ~last'.raised
            /\ last'.res.success <=> (last'.env.returncode = 0)
            /\ last'.res.returncode = last'.env.returncode
            /\ last'.res.stdout = last'.env.output
            /\ last'.res.error = "none"
            /\ "error" \notin last'.res.keys)]_vars

\* C22: whatever keyword arguments execute is given, a process it spawns
\* runs in the runner's workdir.
C22_CwdForced ==
    [][(last'.op = "execute" /\ last'.spawned) => last'.cwd = workdir]_vars

\* ------------- clock: one execute call, from the spawn to its return

\* the seconds the clock counts: past MaxClock, which is later than every
\* deadline and every end of a command, it only beats
MaxClock == DefaultTimeout + 1

\* the keyword arguments of the call: no timeout, a number, or None
ClockKwargs ==
    {[has_timeout |-> h, timeout |-> t, extra |-> "none", is_none |-> n] :
        h \in BOOLEAN, t \in 0..MaxTimeout, n \in BOOLEAN}
        \ {k \in [has_timeout : BOOLEAN, timeout : 0..MaxTimeout,
                  extra : {"none"}, is_none : BOOLEAN] :
               \/ ~k.has_timeout /\ (k.timeout # 0 \/ k.is_none)
               \/ k.is_none /\ k.timeout # 0}

\* line 96: timeout=kwargs.get('timeout', self.timeout); subprocess.run
\* waits without a limit when it is None
Deadline(kwargs, self_timeout) ==
    IF kwargs.has_timeout /\ kwargs.is_none
    THEN [finite |-> FALSE, seconds |-> 0]
    ELSE [finite |-> TRUE, seconds |-> timeout_in_effect(kwargs, self_timeout)]

\* how long the command runs: a number of seconds, or for ever
Runtimes ==
    {[finite |-> TRUE, seconds |-> s] : s \in (0..MaxRun) \cup {DefaultTimeout + 1}}
        \cup {[finite |-> FALSE, seconds |-> 0]}

ClockCall(op, kwargs, self_timeout, runtime, elapsed, error) ==
    [op |-> op, kwargs |-> kwargs, self_timeout |-> self_timeout,
     runtime |-> runtime, elapsed |-> elapsed, beat |-> elapsed % 2,
     error |-> error]

Running == last.op = "running"

Exited == last.runtime.finite /\ last.elapsed >= last.runtime.seconds

Expired ==
    LET d == Deadline(last.kwargs, last.self_timeout)
    IN  d.finite /\ last.elapsed >= d.seconds

\* execute is called: subprocess.run spawns the shell and waits
spawn(kwargs, self_timeout, runtime) ==
    /\ procs' = procs + 1
    /\ last' = ClockCall("running", kwargs, self_timeout, runtime, 0, "none")
    /\ UNCHANGED <<platform, workdir, files, dirs, tempdirs>>

\* a second passes while the command runs and run() waits
tick ==
    /\ ~Exited /\ ~Expired
    /\ last' = [last EXCEPT !.elapsed = IF @ < MaxClock THEN @ + 1 ELSE @,
                            !.beat = 1 - @]
    /\ UNCHANGED <<platform, workdir, files, dirs, procs, tempdirs>>

\* the command has ended: execute returns its result (lines 100-106)
returns ==
    /\ Exited
    /\ procs' = procs - 1
    /\ last' = [last EXCEPT !.op = "execute"]
    /\ UNCHANGED <<platform, workdir, files, dirs, tempdirs>>

\* the timeout has passed first: run() kills the shell and raises
\* TimeoutExpired, execute returns the timeout error (lines 108-116)
times_out ==
    /\ ~Exited /\ Expired
    /\ procs' = procs - 1
    /\ last' = [last EXCEPT !.op = "execute", !.error = "timeout"]
    /\ UNCHANGED <<platform, workdir, files, dirs, tempdirs>>

InitClock == InitFile({"posix"}, {<<"w">>}, {Flat}, {Absent}, {Absent})

NextClock ==
    \/ Fresh /\ \E kwargs \in ClockKwargs, self_timeout \in Timeouts,
                   runtime \in Runtimes : spawn(kwargs, self_timeout, runtime)
    \/ Running /\ tick
    \/ Running /\ returns
    \/ Running /\ times_out

SpecClock == InitClock /\ [][NextClock]_vars

\* run() goes on waiting, and returns when it can
LiveClock == SpecClock /\ WF_vars(NextClock)

\* C24: every execute call that has spawned its command returns, at the
\* latest when the timeout of the call, or else of the runner, has passed.
C24_EveryCallReturns ==
    Running ~> (last.op = "execute")


\* ------------------------------------- Process.kill (src/toollm/process.py)

\* the name fragments of _is_system_process
system_names ==
    {<<"s","y","s","t","e","m">>, <<"k","e","r","n","e","l">>, <<"i","n","i","t">>,
     <<"s","y","s","t","e","m","d">>, <<"l","a","u","n","c","h","d">>,
     <<"c","s","r","s","s">>, <<"s","m","s","s">>, <<"w","i","n","i","n","i","t">>,
     <<"s","e","r","v","i","c","e","s">>, <<"l","s","a","s","s">>,
     <<"s","v","c","h","o","s","t">>, <<"e","x","p","l","o","r","e","r">>}

system_pids == {0, 1, 4}

system_users ==
    {<<"r","o","o","t">>, <<"s","y","s","t","e","m">>,
     <<"n","t"," ","a","u","t","h","o","r","i","t","y","\\","s","y","s","t","e","m">>}

\* a classification that looks at the name only
NameOnly(target) ==
    \E sys_name \in system_names : find(lower(target.name), sys_name, 1) # 0

\* Process._is_system_process: a name fragment, a pid, a user; a user that
\* cannot be read is skipped, any other failure classifies as system
is_system_process(target) ==
    IF target.fault = "classify" THEN TRUE
    ELSE \/ \E sys_name \in system_names : find(lower(target.name), sys_name, 1) # 0
         \/ target.pid \in system_pids
         \/ target.fault # "username" /\ lower(target.username) \in system_users

\* Process(allow_system_processes).kill(pid, force): the process is looked
\* up and named, classified unless the override is set, signalled, and
\* waited for (3 seconds)
KillOutcome(target, force, allow_system_processes) ==
    LET found == procs > 0
        blocked == ~allow_system_processes /\ is_system_process(target)
        signalled == found /\ target.fault # "name" /\ ~blocked
                     /\ target.fault # "signal"
        died == signalled /\ (target.heeds \/ force)
        error == IF ~found THEN "not_found"
                 ELSE IF target.fault = "name" THEN "access_denied"
                 ELSE IF blocked THEN "blocked"
                 ELSE IF target.fault = "signal" THEN "access_denied"
                 ELSE IF ~target.heeds /\ ~force THEN "not_terminated"
                 ELSE "none"
    IN  [signal |-> IF ~signalled THEN "none"
                    ELSE IF force THEN "SIGKILL" ELSE "SIGTERM",
         died |-> died, error |-> error]

KillStep(op, target, force, allow_system_processes) ==
    LET o == KillOutcome(target, force, allow_system_processes)
    IN  /\ procs' = IF o.died THEN procs - 1 ELSE procs
        /\ last' = [op |-> op, target |-> target, force |-> force,
                    allow |-> allow_system_processes, signal |-> o.signal,
                    res |-> [success |-> o.error = "none", error |-> o.error]]
        /\ UNCHANGED <<platform, workdir, files, dirs, tempdirs>>

kill(target, force, allow_system_processes) ==
    KillStep("kill", target, force, allow_system_processes)

\* functions.kill_process(pid, force, allow_system)
kill_process(target, force, allow_system) ==
    KillStep("kill_process", target, force, allow_system)

\* ------------------------------------------ kills: one kill of one process

ProcessNames ==
    {<<"b","a","s","h">>, <<"s","y","s","t","e","m","d">>,
     <<"X","i","n","i","t">>, <<"E","x","p","l","o","r","e","r">>,
     <<"k","w","o","r","k","e","r">>}

Usernames ==
    {<<"a","l","i","c","e">>, <<"r","o","o","t">>, <<"S","Y","S","T","E","M">>,
     <<"N","T"," ","A","U","T","H","O","R","I","T","Y","\\","S","Y","S","T","E","M">>}

UserPid == 7

Targets ==
    [name : ProcessNames, pid : system_pids \cup {UserPid}, username : Usernames,
     fault : {"none", "name", "classify", "username", "signal"}, heeds : BOOLEAN]

\* the pid names a running process (procs = 1) or nothing (procs = 0)
InitKill ==
    /\ platform \in {"posix", "nt"}
    /\ workdir = <<"w">>
    /\ files = [p \in FileNodes |-> IF p = OutsideFile THEN <<"a">> ELSE Absent]
    /\ dirs = Flat
    /\ procs \in {0, 1}
    /\ tempdirs = 0
    /\ last = [op |-> "init"]

NextKill ==
    \/ Fresh /\ \E target \in Targets, force, allow \in BOOLEAN :
                    kill(target, force, allow)
    \/ Fresh /\ \E target \in Targets, force, allow \in BOOLEAN :
                    kill_process(target, force, allow)

SpecKill == InitKill /\ [][NextKill]_vars

\* the process is system-owned by one of the signs of the classification
SystemOwned(target) ==
    \/ target.fault = "classify"
    \/ \E sys_name \in system_names : find(lower(target.name), sys_name, 1) # 0
    \/ target.pid \in {0, 1, 4}
    \/ target.fault # "username" /\ lower(target.username) \in system_users

\* C26: a kill of a process that is classified system-owned (a name fragment,
\* pid 0, 1 or 4, the user root or SYSTEM, or a classification that fails),
\* with the override not set, returns a failure, sends no signal and leaves
\* the process running.
C26_SystemProcessNotSignalled ==
    [][(/\ last'.op \in {"kill", "kill_process"}
        /\ ~last'.allow
        /\ SystemOwned(last'.target))
        => (/\ ~last'.res.success
            /\ last'.signal = "none"
            /\ procs' = procs)]_vars

\* a running process owned by root, with a harmless name and pid, was the
\* target of a forced kill without override and was refused
C26_Witness ==
    /\ last.op = "kill"
    /\ procs = 1
    /\ ~last.allow /\ last.force
    /\ last.target.fault = "none"
    /\ last.target.name = <<"b","a","s","h">>
    /\ last.target.pid = UserPid
    /\ last.target.username = <<"r","o","o","t">>
    /\ last.res.error = "blocked"


\* ------------- batches: one batch call, against its specs called one by one

\* the specs of the batches: texts of letters and texts with a carriage
\* return or a line feed
BatchSpecs ==
    {R(<<"X">>, <<"Y">>, "false"), R(<<"X">>, <<"Y">>, "true"),
     R(<<"a">>, <<"X">>, "absent"), R(<<"a">>, <<"a", "X">>, "absent"),
     R(<<"a">>, <<"CR">>, "true"), R(<<"CR">>, <<"X">>, "true"),
     R(<<"LF">>, <<"a">>, "false")}

InitBatch ==
    InitFile({"posix", "nt"}, {<<"w">>}, {Flat},
             TextsUpTo({"a", "X"}, MaxContent) \cup {<<"a", "LF", "X">>},
             {Absent})

NextBatch ==
    \/ Fresh /\ \E b \in UNION {[1..k -> BatchSpecs] : k \in 0..MaxBatch} :
                    search_replace(APath, b, "none")

SpecBatch == InitBatch /\ [][NextBatch]_vars

\* search_replace(path, [replacements[i]]), then [replacements[i+1]], ...,
\* each call reading the file its predecessor wrote; a call that fails ends
\* the run
RECURSIVE OneByOne(_, _, _, _)
OneByOne(bytes, replacements, i, made) ==
    IF i > Len(replacements) THEN [ok |-> TRUE, bytes |-> bytes, made |-> made]
    ELSE LET out == ApplyFrom(read_text(bytes), <<replacements[i]>>, 1, 0)
         IN  IF ~out.ok THEN [ok |-> FALSE, bytes |-> bytes, made |-> made]
             ELSE OneByOne(written(bytes, out, "none"), replacements, i + 1,
                           made + out.made)

\* C27: a batch call that succeeds leaves the file content, and reports the
\* replacements_made, that the calls of its specs one by one leave and
\* report in total, and each of these calls succeeds.
C27_BatchIsSuccessiveCalls ==
    [][(last'.op = "search_replace" /\ last'.res.success)
        => LET one == OneByOne(files[ANode], last'.batch, 1, 0)
           IN  /\ one.ok
               /\ files'[ANode] = one.bytes
               /\ last'.res.replacements_made = one.made]_vars


\* -------- races: two calls of one File on /w/a.txt, their steps interleaved

\* a call under way: "called", then (search_replace) "computed" once the
\* file is read and the loop has run on the content in memory, or
\* (create_file) "checked" once exists() has answered no; "returned" at last
RaceCall(op, arg) ==
    [op |-> op, arg |-> arg, pc |-> "called", seen |-> Absent,
     content |-> <<>>, made |-> 0, res |-> NoRes]

Racing == last.op = "race"

Returned(i) == Racing /\ last.calls[i].pc = "returned"

\* two callers enter search_replace(path, batch) or create_file(path, content)
race(op, arg1, arg2) ==
    /\ last' = [op |-> "race", existed |-> target_exists(ANode),
                calls |-> <<RaceCall(op, arg1), RaceCall(op, arg2)>>]
    /\ UNCHANGED <<platform, workdir, files, dirs, procs, tempdirs>>

\* a caller's record changes, the other's stays
Moves(i, call) == last' = [last EXCEPT !.calls[i] = call]

\* search_replace, lines 190-245: the checks, read_text and the loop
search_replace_read(i) ==
    LET c == last.calls[i]
        early == IF ~exists(ANode) THEN "not_found"
                 ELSE IF ~is_file(ANode) THEN "io_error" ELSE "none"
        out == ApplyFrom(read_text(files[ANode]), c.arg, 1, 0)
    IN  /\ c.op = "search_replace" /\ c.pc = "called"
        /\ Moves(i, IF early # "none"
                    THEN [c EXCEPT !.pc = "returned", !.res = Fail(early)]
                    ELSE IF ~out.ok
                    THEN [c EXCEPT !.pc = "returned", !.seen = files[ANode],
                                   !.res = [NoRes EXCEPT !.error = out.error,
                                                         !.idx = out.idx,
                                                         !.count = out.count]]
                    ELSE [c EXCEPT !.pc = "computed", !.seen = files[ANode],
                                   !.content = out.content, !.made = out.made])
        /\ UNCHANGED <<platform, workdir, files, dirs, procs, tempdirs>>

\* a commit that compares before it writes: the file must still hold what
\* the call read
WriteIfUnchanged(i) ==
    LET c == last.calls[i]
    IN  /\ c.op = "search_replace" /\ c.pc = "computed"
        /\ IF files[ANode] = c.seen
           THEN /\ files' = [files EXCEPT ![ANode] = write_text(c.content)]
                /\ Moves(i, [c EXCEPT !.pc = "returned",
                                      !.res = [NoRes EXCEPT !.success = TRUE,
                                                   !.replacements_made = c.made]])
           ELSE /\ UNCHANGED files
                /\ Moves(i, [c EXCEPT !.pc = "returned", !.res = Fail("io_error")])
        /\ UNCHANGED <<platform, workdir, dirs, procs, tempdirs>>

\* search_replace, lines 247-252: write_text of the content in memory and
\* the success result
search_replace_write(i) ==
    LET c == last.calls[i]
    IN  /\ c.op = "search_replace" /\ c.pc = "computed"
        /\ files' = [files EXCEPT ![ANode] = write_text(c.content)]
        /\ Moves(i, [c EXCEPT !.pc = "returned",
                              !.res = [NoRes EXCEPT !.success = TRUE,
                                           !.replacements_made = c.made]])
        /\ UNCHANGED <<platform, workdir, dirs, procs, tempdirs>>

\* create_file, lines 135-152: the checks up to full_path.exists()
create_file_check(i) ==
    LET c == last.calls[i]
    IN  /\ c.op = "create_file" /\ c.pc = "called"
        /\ Moves(i, IF target_exists(ANode)
                    THEN [c EXCEPT !.pc = "returned", !.res = Fail("already_exists")]
                    ELSE [c EXCEPT !.pc = "checked"])
        /\ UNCHANGED <<platform, workdir, files, dirs, procs, tempdirs>>

\* create_file, lines 154-162: mkdir of the parents, write_text (open mode
\* 'w': the file is created or truncated) and the success result
create_file_write(i) ==
    LET c == last.calls[i]
    IN  /\ c.op = "create_file" /\ c.pc = "checked"
        /\ dirs' = dirs \cup ancestors(ANode)
        /\ files' = [files EXCEPT ![ANode] = write_text(c.arg)]
        /\ Moves(i, [c EXCEPT !.pc = "returned",
                              !.res = [NoRes EXCEPT !.success = TRUE]])
        /\ UNCHANGED <<platform, workdir, procs, tempdirs>>

RaceSpecs ==
    {R(<<"X">>, <<"Y">>, "false"), R(<<"a">>, <<"b">>, "false"),
     R(<<"X">>, <<"Y">>, "true"), R(<<"a">>, <<"X">>, "absent")}

InitRace ==
    InitFile({"posix"}, {<<"w">>}, {Flat},
             {Absent, <<"a", "X">>, <<"a">>, <<"a", "X", "X">>}, {Absent})

NextRace ==
    \/ Fresh /\ \E s1, s2 \in RaceSpecs : race("search_replace", <<s1>>, <<s2>>)
    \/ Fresh /\ \E c1, c2 \in {<<>>, <<"a">>, <<"X">>} : race("create_file", c1, c2)
    \/ Racing /\ \E i \in {1, 2} : search_replace_read(i)
    \/ Racing /\ \E i \in {1, 2} : search_replace_write(i)
    \/ Racing /\ \E i \in {1, 2} : create_file_check(i)
    \/ Racing /\ \E i \in {1, 2} : create_file_write(i)

SpecRace == InitRace /\ [][NextRace]_vars

\* C28: nothing stands between a racing search_replace call and its write:
\* a call that has read the file and computed its content commits exactly
\* that content and returns success, whatever the other call has written
\* since the read.
C28_WriteIgnoresOtherCall ==
    [][\A i \in {1, 2} :
        (/\ Racing
         /\ last.calls[i].op = "search_replace"
         /\ last.calls[i].pc = "computed"
         /\ last'.calls[i].pc = "returned")
        => (/\ last'.calls[i].res.success
            /\ files'[ANode] = write_text(last.calls[i].content))]_vars

\* the lost update: 'aX' was edited by X -> Y and by a -> b, both calls
\* returned success, and the file holds 'aY': the replacement of the second
\* call is gone
C28_Witness ==
    /\ Returned(1) /\ Returned(2)
    /\ last.calls[1].op = "search_replace"
    /\ last.calls[1].arg = <<R(<<"X">>, <<"Y">>, "false")>>
    /\ last.calls[2].arg = <<R(<<"a">>, <<"b">>, "false")>>
    /\ last.calls[1].res.success /\ last.calls[2].res.success
    /\ last.calls[1].seen = <<"a", "X">> /\ last.calls[2].seen = <<"a", "X">>
    /\ files[ANode] = <<"a", "Y">>

\* C30: when two create_file calls for one path that does not exist have
\* both returned, at most one of them returned success, the other failed
\* with already-exists, and the file holds the content of the one that
\* succeeded.
C30_OneCreateWins ==
    (/\ Returned(1) /\ Returned(2)
     /\ last.calls[1].op = "create_file"
     /\ ~last.existed)
    => \E i \in {1, 2} :
        /\ last.calls[i].res.success
        /\ last.calls[3 - i].res.error = "already_exists"
        /\ files[ANode] = write_text(last.calls[i].arg)


\* ------- looks: the read-only operations, each after its construction

\* CommandRunner.list_files: the names of the entries of the workdir, the
\* empty list on any fault
runner_list_files ==
    LET wd == last.self.workdir
    IN  /\ last' = [op |-> "runner_list_files", self |-> last.self, raised |-> FALSE,
                    names |-> IF is_dir(resolve(wd))
                              THEN {p[Len(p)] : p \in walk(wd, FALSE)} ELSE {}]
        /\ UNCHANGED <<platform, workdir, files, dirs, procs, tempdirs>>

\* CommandRunner.read_file: the text of a file that resolves into the
\* workdir, None on any fault
runner_read_file(filename) ==
    LET wd == last.self.workdir
        full == resolve(joinpath(wd, filename))
    IN  /\ last' = [op |-> "runner_read_file", self |-> last.self, raised |-> FALSE,
                    filename |-> filename,
                    content |-> IF IsPrefix(resolve(wd), full) /\ is_file(full)
                                THEN read_text(files[full]) ELSE None]
        /\ UNCHANGED <<platform, workdir, files, dirs, procs, tempdirs>>

RunnerConstructed == last.op = "construct" /\ ~last.raised

\* functions.read_file and functions.list_files are File(workdir) and the
\* call; list_workdir_files and read_workdir_file are
\* CommandRunner(workdir=workdir) and the call
NextLook ==
    \/ Fresh /\ File_init
    \/ Constructed /\ \E p \in ApiPaths : read_file(p, NoRange, "none")
    \/ Constructed /\ \E p \in ApiPaths \cup {NoPath}, recursive \in BOOLEAN :
                        list_files(p, recursive, "none")
    \/ Fresh /\ \E wdarg \in WorkdirArgs : construct(wdarg, DefaultTimeout, FALSE)
    \/ RunnerConstructed /\ runner_list_files
    \/ RunnerConstructed /\ \E p \in ApiPaths : runner_read_file(p)

SpecLook == InitApi /\ [][NextLook]_vars

\* C29: the construction of File and of CommandRunner for a read-only
\* operation, and the operations read_file and list_files of both, leave
\* every file and every directory as they were.
C29_ReadOnlyChangesNothing ==
    [][(last'.op \in {"File", "read_file", "list_files", "construct",
                      "runner_list_files", "runner_read_file"})
        => (files' = files /\ dirs' = dirs /\ tempdirs' = tempdirs)]_vars

====
